---- MODULE Spec2Model ----
(***************************************************************************)
(* A model of patchUtils.js: convertToPatch, the line-driven recognizer    *)
(* that rebuilds a git patch from a mail body, and getPatchFileName, the   *)
(* derivation of a file name from a mail subject.                          *)
(*                                                                         *)
(* Text is modelled character by character: a string is a sequence of      *)
(* one-character strings, and the regular expressions of the source are    *)
(* operators over such sequences.  The non-breaking space U+00A0 is the    *)
(* character written NBSP.                                                 *)
(***************************************************************************)
EXTENDS Integers, Sequences, FiniteSets, TLC

\* ------------------------------------------------------------------------
\* Characters and strings
\* ------------------------------------------------------------------------

NBSP == "NBSP"

\* U+00E9, standing for every character outside \x00-\x7F other than NBSP.
EACUTE == "EACUTE"

\* JavaScript's \s among the characters used here (U+00A0 is white space).
IsSpace(c) == c \in {" ", NBSP}

IsDigit(c) == c \in {"0", "1", "2", "3", "4", "5", "6", "7", "8", "9"}

IsAlpha(c) ==
    c \in {"a", "b", "c", "d", "e", "f", "g", "h", "i", "j", "k", "l", "m",
           "n", "o", "p", "q", "r", "s", "t", "u", "v", "w", "x", "y", "z",
           "A", "B", "C", "D", "E", "F", "G", "H", "I", "J", "K", "L", "M",
           "N", "O", "P", "Q", "R", "S", "T", "U", "V", "W", "X", "Y", "Z"}

DigitVal(c) ==
    CASE c = "0" -> 0 [] c = "1" -> 1 [] c = "2" -> 2 [] c = "3" -> 3
      [] c = "4" -> 4 [] c = "5" -> 5 [] c = "6" -> 6 [] c = "7" -> 7
      [] c = "8" -> 8 [] c = "9" -> 9

\* s.substring(i - 1, j) with 1-based inclusive bounds; empty when j < i.
Sub(s, i, j) == IF j < i THEN << >> ELSE SubSeq(s, i, j)

\* s.startsWith(p) at 1-based position i.
HasAt(s, i, p) ==
    /\ i >= 1
    /\ i + Len(p) - 1 <= Len(s)
    /\ \A k \in 1..Len(p) : s[i + k - 1] = p[k]

\* s.endsWith(p)
EndsWith(s, p) == Len(p) <= Len(s) /\ HasAt(s, Len(s) - Len(p) + 1, p)

\* The first position >= i of s that holds no white space (Len(s)+1 if none):
\* where a greedy \s* or \s+ starting at i stops.
RECURSIVE SkipSpace(_, _)
SkipSpace(s, i) ==
    IF i <= Len(s) /\ IsSpace(s[i]) THEN SkipSpace(s, i + 1) ELSE i

\* The first position >= i of s that holds no digit: where a greedy \d+ stops.
RECURSIVE SkipDigits(_, _)
SkipDigits(s, i) ==
    IF i <= Len(s) /\ IsDigit(s[i]) THEN SkipDigits(s, i + 1) ELSE i

\* parseInt of a non-empty run of decimal digits.
RECURSIVE ParseInt(_)
ParseInt(s) ==
    IF s = << >> THEN 0
    ELSE 10 * ParseInt(Sub(s, 1, Len(s) - 1)) + DigitVal(s[Len(s)])

\* s.replaceAll("\u00A0", " ")
ReplaceNbsp(s) == [k \in 1..Len(s) |-> IF s[k] = NBSP THEN " " ELSE s[k]]

\* ------------------------------------------------------------------------
\* The regular expressions of convertToPatch
\* ------------------------------------------------------------------------

NoMatch == [ok |-> FALSE]

\* The positions q at which "\s+b(\/.*)$" can put its "b": a white space
\* before, a "/" after, and room for the first group "(\/.*)" from position a.
HeaderSplits(line, a) ==
    {q \in (a + 2)..(Len(line) - 1) :
        IsSpace(line[q - 1]) /\ line[q] = "b" /\ line[q + 1] = "/"}

\* /^diff\s+--git\s+a(\/.*)\s+b(\/.*)$/ : the greedy first group ends as far
\* right as a split allows, leaving exactly one white space to "\s+".
regexPatchFileHeader(line) ==
    LET p1 == SkipSpace(line, 5)
        p2 == SkipSpace(line, p1 + 5)
    IN  IF /\ HasAt(line, 1, <<"d", "i", "f", "f">>)
           /\ p1 > 5
           /\ HasAt(line, p1, <<"-", "-", "g", "i", "t">>)
           /\ p2 > p1 + 5
           /\ HasAt(line, p2, <<"a", "/">>)
           /\ HeaderSplits(line, p2 + 1) # {}
        THEN LET q == CHOOSE x \in HeaderSplits(line, p2 + 1) :
                         \A y \in HeaderSplits(line, p2 + 1) : y <= x
             IN  [ok |-> TRUE,
                  m1 |-> Sub(line, p2 + 1, q - 2),
                  m2 |-> Sub(line, q + 1, Len(line))]
        ELSE NoMatch

\* "(?:\d+,)?(\d+)" at position i: the captured digits and the position after
\* them.  The optional "start," is taken only when digits follow its comma.
CountField(line, i) ==
    LET d == SkipDigits(line, i)
        e == SkipDigits(line, d + 1)
    IN  IF d = i THEN NoMatch
        ELSE IF d <= Len(line) /\ line[d] = "," /\ e > d + 1
             THEN [ok |-> TRUE, digits |-> Sub(line, d + 1, e - 1), next |-> e]
             ELSE [ok |-> TRUE, digits |-> Sub(line, i, d - 1), next |-> d]

\* /^@@\s+-(?:\d+,)?(\d+)\s+\+(?:\d+,)?(\d+)\s+@@.*$/
regexPatchHunkAsciiHeader(line) ==
    LET p1 == SkipSpace(line, 3)
        c1 == CountField(line, p1 + 1)
        p2 == IF c1.ok THEN SkipSpace(line, c1.next) ELSE 0
        c2 == IF c1.ok THEN CountField(line, p2 + 1) ELSE NoMatch
        p3 == IF c2.ok THEN SkipSpace(line, c2.next) ELSE 0
    IN  IF /\ HasAt(line, 1, <<"@", "@">>)
           /\ p1 > 3
           /\ HasAt(line, p1, <<"-">>)
           /\ c1.ok
           /\ p2 > c1.next
           /\ HasAt(line, p2, <<"+">>)
           /\ c2.ok
           /\ p3 > c2.next
           /\ HasAt(line, p3, <<"@", "@">>)
        THEN [ok |-> TRUE, m1 |-> c1.digits, m2 |-> c2.digits]
        ELSE NoMatch

\* /^(delta|literal)\s+[0-9]+\s*$/
regexPatchHunkBinarySubHeader(line) ==
    LET w  == IF HasAt(line, 1, <<"d", "e", "l", "t", "a">>) THEN 5
              ELSE IF HasAt(line, 1, <<"l", "i", "t", "e", "r", "a", "l">>)
              THEN 7
              ELSE 0
        p1 == SkipSpace(line, w + 1)
        p2 == SkipDigits(line, p1)
    IN  /\ w > 0
        /\ p1 > w + 1
        /\ p2 > p1
        /\ SkipSpace(line, p2) = Len(line) + 1

\* /^[a-zA-Z]\S+$/
regexPatchHunkBinary(line) ==
    /\ Len(line) >= 2
    /\ IsAlpha(line[1])
    /\ \A k \in 2..Len(line) : ~IsSpace(line[k])

\* ------------------------------------------------------------------------
\* getPatchFileName
\* ------------------------------------------------------------------------

UpperCase ==
    <<"A", "B", "C", "D", "E", "F", "G", "H", "I", "J", "K", "L", "M",
      "N", "O", "P", "Q", "R", "S", "T", "U", "V", "W", "X", "Y", "Z">>

LowerCase ==
    <<"a", "b", "c", "d", "e", "f", "g", "h", "i", "j", "k", "l", "m",
      "n", "o", "p", "q", "r", "s", "t", "u", "v", "w", "x", "y", "z">>

\* The case folding of the regular expression flag "i".
Fold(c) ==
    IF \E k \in 1..26 : UpperCase[k] = c
    THEN LowerCase[CHOOSE k \in 1..26 : UpperCase[k] = c]
    ELSE c

\* s holds p at position i, letters compared without case.
HasAtFold(s, i, p) ==
    /\ i >= 1
    /\ i + Len(p) - 1 <= Len(s)
    /\ \A k \in 1..Len(p) : Fold(s[i + k - 1]) = Fold(p[k])

\* "(?:V\d+\s+)?" at position i: the position after it.
VersionField(s, i) ==
    LET d == SkipDigits(s, i + 1)
        e == SkipSpace(s, d)
    IN  IF HasAtFold(s, i, <<"V">>) /\ d > i + 1 /\ e > d THEN e ELSE i

\* "(?:(\d+)\/\d+)?" at position i: the captured digits ("undefined" when
\* the group takes nothing) and the position after it.
IndexField(s, i) ==
    LET d == SkipDigits(s, i)
        e == SkipDigits(s, d + 1)
    IN  IF d > i /\ HasAt(s, d, <<"/">>) /\ e > d + 1
        THEN [digits |-> Sub(s, i, d - 1), next |-> e]
        ELSE [digits |-> "undefined", next |-> i]

\* The last position >= i - 1 of s followed only by "." and white space:
\* where the lazy "(.*?)" before "[.\s]*$" ends.
RECURSIVE TitleEnd(_, _, _)
TitleEnd(s, i, e) ==
    IF e >= i /\ (s[e] = "." \/ IsSpace(s[e])) THEN TitleEnd(s, i, e - 1)
    ELSE e

\* "\[PATCH\s*(?:V\d+\s+)?(?:(\d+)\/\d+)?\]\s*(.*?)[.\s]*$" at position i.
TagAt(s, i) ==
    LET v == VersionField(s, SkipSpace(s, i + 6))
        n == IndexField(s, v)
        t == SkipSpace(s, n.next + 1)
    IN  IF /\ HasAtFold(s, i, <<"[", "P", "A", "T", "C", "H">>)
           /\ HasAt(s, n.next, <<"]">>)
        THEN [ok |-> TRUE, m1 |-> n.digits,
              m2 |-> Sub(s, t, TitleEnd(s, t, Len(s)))]
        ELSE NoMatch

ListTag == <<"[", "e", "d", "k", "2", "-", "d", "e", "v", "e", "l", "]">>

\* regexSubject at position i: with the optional "\[edk2-devel\]\s*" first,
\* and without it when that fails.
SubjectAt(s, i) ==
    IF HasAtFold(s, i, ListTag) /\ TagAt(s, SkipSpace(s, i + 12)).ok
    THEN TagAt(s, SkipSpace(s, i + 12))
    ELSE TagAt(s, i)

\* subject.match(regexSubject): the match that starts leftmost.
regexSubject(s) ==
    IF \E i \in 1..Len(s) : SubjectAt(s, i).ok
    THEN SubjectAt(s, CHOOSE i \in 1..Len(s) :
                          /\ SubjectAt(s, i).ok
                          /\ \A j \in 1..(i - 1) : ~SubjectAt(s, j).ok)
    ELSE NoMatch

\* n.toString(), n >= 0
RECURSIVE DecimalString(_)
DecimalString(n) ==
    LET digit == <<"0", "1", "2", "3", "4", "5", "6", "7", "8", "9">>
    IN  IF n < 10 THEN <<digit[n + 1]>>
        ELSE DecimalString(n \div 10) \o <<digit[(n % 10) + 1]>>

\* s.padStart(4, "0")
RECURSIVE PadStart4(_)
PadStart4(s) == IF Len(s) >= 4 THEN s ELSE PadStart4(<<"0">> \o s)

\* parseInt(match[1]) || 1
PatchIndex(m1) ==
    IF m1 = "undefined" THEN 1
    ELSE IF ParseInt(m1) = 0 THEN 1
    ELSE ParseInt(m1)

\* The stem before it is cleaned: the index and the title of a subject that
\* matches, the subject itself otherwise.
Stem(subj) ==
    LET m == regexSubject(subj)
    IN  IF m.ok
        THEN PadStart4(DecimalString(PatchIndex(m.m1))) \o <<"-">> \o m.m2
        ELSE subj

\* [^\x00-\x7F]
NonAscii(c) == c \in {NBSP, EACUTE}

\* [\\\/\*\|\"\<\>\:\#\?]
Special(c) == c \in {"\\", "/", "*", "|", "\"", "<", ">", ":", "#", "?"}

\* .replace(/[^\x00-\x7F]/g, " ").replace(/[\\\/\*\|\"\<\>\:\#\?]/g, " ")
Blanked(s) ==
    [k \in 1..Len(s) |-> IF NonAscii(s[k]) \/ Special(s[k]) THEN " " ELSE s[k]]

\* .replace(/ +/g, "-")
RECURSIVE Hyphenated(_)
Hyphenated(s) ==
    IF s = << >> THEN << >>
    ELSE IF s[1] # " " THEN <<s[1]>> \o Hyphenated(Tail(s))
    ELSE IF Len(s) >= 2 /\ s[2] = " " THEN Hyphenated(Tail(s))
    ELSE <<"-">> \o Hyphenated(Tail(s))

\* What is appended to the stem.
Suffix(ok) ==
    (IF ok THEN << >> ELSE <<".", "w", "a", "r", "n", "i", "n", "g">>)
        \o <<".", "p", "a", "t", "c", "h">>

getPatchFileName(subj, ok) == Hyphenated(Blanked(Stem(subj))) \o Suffix(ok)

\* ------------------------------------------------------------------------
\* The lines that bodies are made of
\* ------------------------------------------------------------------------

LineEmpty == << >>

\* "diff --git a/f b/f"
LineDiffSame ==
    <<"d", "i", "f", "f", " ", "-", "-", "g", "i", "t", " ", "a", "/", "f",
      " ", "b", "/", "f">>

\* "diff --git a/f b/g"
LineDiffOther ==
    <<"d", "i", "f", "f", " ", "-", "-", "g", "i", "t", " ", "a", "/", "f",
      " ", "b", "/", "g">>

\* "diff --git a/s.sh b/s.sh"
LineDiffSh ==
    <<"d", "i", "f", "f", " ", "-", "-", "g", "i", "t", " ", "a", "/", "s",
      ".", "s", "h", " ", "b", "/", "s", ".", "s", "h">>

\* "@@ -1 +1 @@"
LineHunk11 ==
    <<"@", "@", " ", "-", "1", " ", "+", "1", " ", "@", "@">>

\* "+x"
LineAdd ==
    <<"+", "x">>

\* " x"
LineContext ==
    <<" ", "x">>

\* "-x"
LineDel ==
    <<"-", "x">>

\* "-- "
LineSignature ==
    <<"-", "-", " ">>

\* "\ No newline at end of file"
LineNoNewline ==
    <<"\\", " ", "N", "o", " ", "n", "e", "w", "l", "i", "n", "e", " ",
      "a", "t", " ", "e", "n", "d", " ", "o", "f", " ", "f", "i", "l", "e">>

\* "GIT binary patch"
LineGitBinary ==
    <<"G", "I", "T", " ", "b", "i", "n", "a", "r", "y", " ", "p", "a", "t",
      "c", "h">>

\* "literal 1"
LineLiteral ==
    <<"l", "i", "t", "e", "r", "a", "l", " ", "1">>

\* "zz"
LinePayload ==
    <<"z", "z">>

\* "\u00A0x"
LineNbspContext ==
    <<NBSP, "x">>

\* "--\u00A0"
LineNbspSignature ==
    <<"-", "-", NBSP>>

\* "diff --git a/f\u00A0b/f"
LineNbspDiff ==
    <<"d", "i", "f", "f", " ", "-", "-", "g", "i", "t", " ", "a", "/", "f",
      NBSP, "b", "/", "f">>

\* "@@\u00A0-1 +1 @@"
LineNbspHunk ==
    <<"@", "@", NBSP, "-", "1", " ", "+", "1", " ", "@", "@">>

\* ------------------------------------------------------------------------
\* convertToPatch
\* ------------------------------------------------------------------------

PatchStateStart == 0
PatchStateFileHeader == 1
PatchStateHunkHeader == 2
PatchStateHunk == 3
PatchStateHunkEnd == 4
PatchStateEnd == 5

\* The value of filePath before any file header was seen.
Null == "null"

LF == <<"\n">>
CRLF == <<"\r", "\n">>

\* The two versions of convertToPatch in the repository: the one that replaces
\* U+00A0 over the whole body before splitting it, and the one that splits
\* the body as it is.
Impls == {"replaceFirst", "splitOnly"}

\* The longest bodies explored, in lines: MaxShort over the larger sets of
\* lines, MaxLong over the smaller one.
MaxShort == 4
MaxLong == 6

VARIABLES
    input,               \* the bodies explored: their lines, their length
    impl,                \* which version of convertToPatch runs
    pc,                  \* "scan": in the loop; "done": returned; "threw"
    consumed,            \* the lines of bodyText.split(/\r\n|\n/) read so far
    line,                \* the loop variable: the line of the last iteration
    unixEol,             \* unixEol at the end of the last iteration
    state,
    addedLinesInHunk,
    deletedLinesInHunk,
    asciiHunk,
    success,
    filePath,
    patchBody,
    violations,          \* the failures recorded so far, by kind
    hunk,                \* the current ascii hunk: lines announced and seen
    trace,               \* one record for each iteration completed
    subject,             \* getPatchFileName: its first argument
    flag,                \* getPatchFileName: its second argument, success
    fileName             \* getPatchFileName: what it returned

vars ==
    <<input, impl, pc, consumed, line, unixEol, state, addedLinesInHunk,
      deletedLinesInHunk, asciiHunk, success, filePath, patchBody,
      violations, hunk, trace, subject, flag, fileName>>

scanVars ==
    <<input, impl, pc, consumed, line, unixEol, state, addedLinesInHunk,
      deletedLinesInHunk, asciiHunk, success, filePath, patchBody,
      violations, hunk, trace>>

nameVars == <<subject, flag, fileName>>

\* The local variables of convertToPatch, as one record.
Locals ==
    [state |-> state, added |-> addedLinesInHunk,
     deleted |-> deletedLinesInHunk, ascii |-> asciiHunk,
     success |-> success, filePath |-> filePath, violations |-> violations]

\* What the loop iterates over: each line of the body, with U+00A0 replaced
\* before the split in the version that does so.
LoopLine(im, raw) == IF im = "replaceFirst" THEN ReplaceNbsp(raw) ELSE raw

\* The states in which each branch of the if-chain is eligible.
\* FileHeaderStates with the end state let in.
FileHeaderStatesAndEnd ==
    {PatchStateStart, PatchStateHunkEnd, PatchStateEnd}

FileHeaderStates == {PatchStateStart, PatchStateHunkEnd}
\* HunkHeaderStates with the start state let in.
HunkHeaderStatesAndStart ==
    {PatchStateStart, PatchStateFileHeader, PatchStateHunkEnd}

HunkHeaderStates == {PatchStateFileHeader, PatchStateHunkEnd}
\* SubHeaderStates without the state that follows a hunk header.
SubHeaderStatesAfterHunk == {PatchStateHunkEnd}

SubHeaderStates == {PatchStateHunkHeader, PatchStateHunkEnd}
\* ContentStates with the state that follows a file header let in.
ContentStatesAndFileHeader ==
    {PatchStateFileHeader, PatchStateHunkHeader, PatchStateHunk}

ContentStates == {PatchStateHunkHeader, PatchStateHunk}
\* SignatureStates with the start state let in.
SignatureStatesAndStart == {PatchStateStart, PatchStateHunkEnd}

SignatureStates == {PatchStateHunkEnd}

\* The branch of the if-chain that a line takes in a state: 1 "diff --git",
\* 2 "@@ ..." or "GIT binary patch", 3 "delta"/"literal", 4 hunk content,
\* 5 "-- ", 0 none.
Branch(st, l) ==
    IF st \in FileHeaderStates /\ regexPatchFileHeader(l).ok THEN 1
    ELSE IF /\ st \in HunkHeaderStates
            /\ (regexPatchHunkAsciiHeader(l).ok \/ l = LineGitBinary) THEN 2
    ELSE IF st \in SubHeaderStates /\ regexPatchHunkBinarySubHeader(l) THEN 3
    ELSE IF st \in ContentStates THEN 4
    ELSE IF st \in SignatureStates /\ l = LineSignature THEN 5
    ELSE 0

\* OnFileHeader without the comparison of the two paths.
OnFileHeaderUnchecked(v, l) ==
    [v EXCEPT !.state = PatchStateFileHeader,
              !.filePath = regexPatchFileHeader(l).m1]

\* OnFileHeader with the path of the first file header kept.
OnFileHeaderFirstPath(v, l) ==
    LET m == regexPatchFileHeader(l)
    IN  [v EXCEPT !.state = PatchStateFileHeader,
                  !.success = v.success /\ m.m1 = m.m2,
                  !.violations = IF m.m1 = m.m2 THEN @ ELSE @ \cup {"path"},
                  !.filePath = IF v.filePath = Null THEN m.m1 ELSE @]

\* Branch 1: meet "diff --git".
OnFileHeader(v, l) ==
    LET m == regexPatchFileHeader(l)
    IN  [v EXCEPT !.state = PatchStateFileHeader,
                  !.success = v.success /\ m.m1 = m.m2,
                  !.violations = IF m.m1 = m.m2 THEN @ ELSE @ \cup {"path"},
                  !.filePath = m.m1]

\* Branch 2: meet "@@ ..." or "GIT binary patch".
OnHunkHeader(v, l) ==
    LET m == regexPatchHunkAsciiHeader(l)
    IN  IF m.ok
        THEN [v EXCEPT !.state = PatchStateHunkHeader,
                       !.ascii = TRUE,
                       !.deleted = ParseInt(m.m1),
                       !.added = ParseInt(m.m2)]
        ELSE [v EXCEPT !.state = PatchStateHunkHeader, !.ascii = FALSE]

\* OnSubHeader without the check of the hunk being binary.
OnSubHeaderUnchecked(v) == [v EXCEPT !.state = PatchStateHunkHeader]

\* Branch 3: meet "delta ###" or "literal ###".
OnSubHeader(v) ==
    [v EXCEPT !.state = PatchStateHunkHeader,
              !.success = v.success /\ ~v.ascii,
              !.violations = IF v.ascii THEN @ \cup {"mixed"} ELSE @]

\* Whether a content line of an ascii hunk counts as added, as deleted.
CountsAdded(l) ==
    l # LineNoNewline /\ l # << >> /\ (l[1] = " " \/ l[1] = "+")

\* CountsDeleted without the context lines.
CountsDeletedMinusOnly(l) == l # LineNoNewline /\ l # << >> /\ l[1] = "-"

CountsDeleted(l) ==
    l # LineNoNewline /\ l # << >> /\ (l[1] = " " \/ l[1] = "-")

\* OnAsciiContent with a hunk closed by counters at or below 0, and no
\* failure for a counter below 0.
OnAsciiContentLenient(v, l) ==
    LET a == IF CountsAdded(l) THEN v.added - 1 ELSE v.added
        d == IF CountsDeleted(l) THEN v.deleted - 1 ELSE v.deleted
    IN  [v EXCEPT !.state = IF a <= 0 /\ d <= 0 THEN PatchStateHunkEnd
                            ELSE PatchStateHunk,
                  !.added = a,
                  !.deleted = d]

\* Branch 4, ascii hunk.
OnAsciiContent(v, l) ==
    LET a == IF CountsAdded(l) THEN v.added - 1 ELSE v.added
        d == IF CountsDeleted(l) THEN v.deleted - 1 ELSE v.deleted
    IN  [v EXCEPT !.state = IF a = 0 /\ d = 0 THEN PatchStateHunkEnd
                            ELSE PatchStateHunk,
                  !.added = a,
                  !.deleted = d,
                  !.success = v.success /\ a >= 0 /\ d >= 0,
                  !.violations = IF a >= 0 /\ d >= 0 THEN @
                                 ELSE @ \cup {"count"}]

\* OnBinaryContent with the line that ends the payload read again as the
\* signature line.
OnBinaryContentReread(v, l) ==
    [v EXCEPT !.state = IF regexPatchHunkBinary(l) THEN PatchStateHunk
                        ELSE IF l = LineSignature THEN PatchStateEnd
                        ELSE PatchStateHunkEnd]

\* Branch 4, binary hunk.
OnBinaryContent(v, l) ==
    [v EXCEPT !.state = IF regexPatchHunkBinary(l) THEN PatchStateHunk
                        ELSE PatchStateHunkEnd]

\* Branch 5: meet "-- ".
OnSignature(v) == [v EXCEPT !.state = PatchStateEnd]

\* The if-chain of one iteration: the local variables after it.
IfChain(v, l) ==
    LET b == Branch(v.state, l)
    IN  CASE b = 1 -> OnFileHeader(v, l)
          [] b = 2 -> OnHunkHeader(v, l)
          [] b = 3 -> OnSubHeader(v)
          [] b = 4 -> IF v.ascii THEN OnAsciiContent(v, l)
                      ELSE OnBinaryContent(v, l)
          [] b = 5 -> OnSignature(v)
          [] OTHER -> v

\* filePath.endsWith(".sh") throws a TypeError when filePath is null.
Throws(v, l) == Branch(v.state, l) = 4 /\ v.ascii /\ v.filePath = Null

\* UnixEol with unixEol declared false.
UnixEolDeclaredFalse(v, l) ==
    IF Branch(v.state, l) = 4 /\ v.ascii
    THEN EndsWith(v.filePath, <<".", "s", "h">>)
    ELSE Branch(v.state, l) # 0

\* unixEol at the end of the iteration: true as declared and in every branch
\* but ascii hunk content, where it is filePath.endsWith(".sh").
UnixEol(v, l) ==
    IF Branch(v.state, l) = 4 /\ v.ascii
    THEN EndsWith(v.filePath, <<".", "s", "h">>)
    ELSE TRUE

\* Skipped without the test of the hunk being ascii.
SkippedAnyHunk(w, l) ==
    w.state \in {PatchStateHunk, PatchStateHunkEnd} /\ l = << >>

\* Skipped with every line skipped once a failure is recorded.
SkippedOnceFailed(w, l) ==
    \/ ~w.success
    \/ /\ w.state \in {PatchStateHunk, PatchStateHunkEnd}
       /\ w.ascii
       /\ l = << >>

\* The "continue" of the loop: an empty line in an ascii hunk is skipped.
\* w holds the local variables after the if-chain.
Skipped(w, l) ==
    /\ w.state \in {PatchStateHunk, PatchStateHunkEnd}
    /\ w.ascii
    /\ l = << >>

\* Emission without the replacement of U+00A0.
EmissionRaw(l, eol) == l \o (IF eol THEN LF ELSE CRLF)

\* What "patchBody +=" appends for a line.
Emission(l, eol) == ReplaceNbsp(l) \o (IF eol THEN LF ELSE CRLF)

\* Finalize without the check of the final state.
FinalizeKeep(st, ok) == ok

\* After the loop: success is forced to false unless the state is End.
Finalize(st, ok) == IF st # PatchStateEnd THEN FALSE ELSE ok

\* The bodies explored: every sequence of at most max lines out of lines,
\* for each of these sets of lines.  The two versions differ only in LoopLine,
\* which leaves a line without U+00A0 as it is: the bodies without U+00A0 are
\* run through one version, those with U+00A0 through both.
AsciiLines ==
    {LineEmpty, LineDiffSame, LineDiffOther, LineHunk11, LineAdd, LineContext,
     LineDel, LineSignature, LineGitBinary, LineLiteral}

ShellLines ==
    {LineEmpty, LineDiffSh, LineDiffSame, LineHunk11, LineContext,
     LineNoNewline, LineSignature}

NbspLines ==
    {LineNbspDiff, LineNbspHunk, LineNbspContext, LineNbspSignature,
     LineGitBinary, LineContext, LineSignature}

BinaryLines ==
    {LineEmpty, LineDiffSame, LineGitBinary, LineLiteral, LinePayload,
     LineSignature}

Inputs ==
    {[lines |-> AsciiLines, max |-> MaxShort, impls |-> {"replaceFirst"}],
     [lines |-> ShellLines, max |-> MaxShort, impls |-> {"replaceFirst"}],
     [lines |-> NbspLines, max |-> MaxShort, impls |-> Impls],
     [lines |-> BinaryLines, max |-> MaxLong, impls |-> {"replaceFirst"}]}

\* convertToPatch at its first statement.
ScanInit ==
    /\ pc = "scan"
    /\ consumed = << >>
    /\ line = << >>
    /\ unixEol = TRUE
    /\ state = PatchStateStart
    /\ addedLinesInHunk = 0
    /\ deletedLinesInHunk = 0
    /\ asciiHunk = FALSE
    /\ success = TRUE
    /\ filePath = Null
    /\ patchBody = << >>
    /\ violations = {}
    /\ hunk = [deleted |-> 0, added |-> 0, minus |-> 0, plus |-> 0]
    /\ trace = << >>

\* getPatchFileName not called.
NameIdle == subject = << >> /\ flag = TRUE /\ fileName = Null

Init ==
    /\ input \in Inputs
    /\ impl \in input.impls
    /\ ScanInit
    /\ NameIdle

\* The record of the current ascii hunk after an iteration: what its header
\* announced, and how many of its content lines started with "-" or " "
\* (minus) and with "+" or " " (plus).
HunkRecord(h, v, l) ==
    LET b == Branch(v.state, l)
        m == regexPatchHunkAsciiHeader(l)
    IN  IF b = 2 /\ m.ok
        THEN [deleted |-> ParseInt(m.m1), added |-> ParseInt(m.m2),
              minus |-> 0, plus |-> 0]
        ELSE IF b = 4 /\ v.ascii /\ l # << >>
        THEN [h EXCEPT !.minus = IF l[1] \in {"-", " "} THEN @ + 1 ELSE @,
                       !.plus = IF l[1] \in {"+", " "} THEN @ + 1 ELSE @]
        ELSE h

\* One iteration of the loop, on the next line of the body.
ReadLine(raw) ==
    LET l == LoopLine(impl, raw)
        b == Branch(state, l)
        w == IfChain(Locals, l)
        u == UnixEol(Locals, l)
        out == IF Skipped(w, l) THEN patchBody
               ELSE patchBody \o Emission(l, u)
    IN  /\ pc = "scan"
        /\ raw \in input.lines
        /\ Len(consumed) < input.max
        /\ consumed' = Append(consumed, raw)
        /\ line' = l
        /\ IF Throws(Locals, l)
           THEN /\ pc' = "threw"
                /\ state' = PatchStateHunk
                /\ UNCHANGED <<unixEol, addedLinesInHunk, deletedLinesInHunk,
                               asciiHunk, success, filePath, patchBody,
                               violations, hunk, trace>>
           ELSE /\ pc' = "scan"
                /\ state' = w.state
                /\ addedLinesInHunk' = w.added
                /\ deletedLinesInHunk' = w.deleted
                /\ asciiHunk' = w.ascii
                /\ success' = w.success
                /\ filePath' = w.filePath
                /\ violations' = w.violations
                /\ unixEol' = u
                /\ patchBody' = out
                /\ hunk' = HunkRecord(hunk, Locals, l)
                /\ trace' = Append(trace, [branch |-> b, to |-> w,
                                           end |-> Len(out)])
        /\ UNCHANGED <<input, impl>>
        /\ UNCHANGED nameVars

\* The end of the body: the statements after the loop, and the return.  A
\* body has at least one line (the split of an empty string is one empty
\* line).
Finish ==
    /\ pc = "scan"
    /\ Len(consumed) >= 1
    /\ pc' = "done"
    /\ success' = Finalize(state, success)
    /\ UNCHANGED <<input, impl, consumed, line, unixEol, state,
                   addedLinesInHunk, deletedLinesInHunk, asciiHunk, filePath,
                   patchBody, violations, hunk, trace>>
    /\ UNCHANGED nameVars

AllLines == UNION {i.lines : i \in Inputs}

Next ==
    \/ \E raw \in AllLines : ReadLine(raw)
    \/ Finish

Spec == Init /\ [][Next]_vars

\* ------------------------------------------------------------------------
\* Properties of convertToPatch
\* ------------------------------------------------------------------------

Iterations == 1..Len(trace)

\* The line of iteration i, its branch, the local variables before and after
\* it, and the lengths of patchBody before and after it.
LineAt(i) == LoopLine(impl, consumed[i])

BranchAt(i) == trace[i].branch

Before(i) ==
    IF i = 1
    THEN [state |-> PatchStateStart, added |-> 0, deleted |-> 0,
          ascii |-> FALSE, success |-> TRUE, filePath |-> Null,
          violations |-> {}]
    ELSE trace[i - 1].to

After(i) == trace[i].to

StartAt(i) == IF i = 1 THEN 0 ELSE trace[i - 1].end

EndAt(i) == trace[i].end

\* What iteration i appended to patchBody.
Segment(i) == Sub(patchBody, StartAt(i) + 1, EndAt(i))

Emitted(i) == EndAt(i) > StartAt(i)

Chars(l) == {l[k] : k \in 1..Len(l)}

\* Iteration i handled its line as content of an ascii, of a binary hunk.
AsciiContent(i) == BranchAt(i) = 4 /\ Before(i).ascii

BinaryContent(i) == BranchAt(i) = 4 /\ ~Before(i).ascii

\* A "diff --git a/x b/y" line with x # y.
Mismatch(l) ==
    regexPatchFileHeader(l).ok
        /\ regexPatchFileHeader(l).m1 # regexPatchFileHeader(l).m2

\* C1: the returned success is true if and only if the final state is End
\* and no failure (path mismatch, delta/literal in an ascii hunk, counter
\* below 0) was recorded during the scan.
C1_SuccessIffEndAndClean ==
    pc = "done" => (success <=> (state = PatchStateEnd /\ violations = {}))

C1_Witness == pc = "done" /\ success /\ state = PatchStateEnd

\* C2: convertToPatch never throws: whenever a line is handled as content of
\* an ascii hunk the file path is set, and no hunk state is reached before a
\* file header was consumed.
C2_NeverThrows ==
    /\ pc # "threw"
    /\ state \in {PatchStateHunkHeader, PatchStateHunk, PatchStateHunkEnd,
                  PatchStateEnd} => filePath # Null
    /\ \A i \in Iterations : AsciiContent(i) => Before(i).filePath # Null

C2_Witness == \E i \in Iterations : AsciiContent(i)

C4_MismatchAnywhereFails ==
    (pc = "done" /\ \E i \in Iterations : Mismatch(LineAt(i))) => ~success

\* C4 as amended: a "diff --git a/x b/y" line with x # y that is read in
\* state Start or HunkEnd makes success false for the rest of the scan and in
\* the result.
C4_MismatchAsHeaderFails ==
    \A i \in Iterations :
        (Before(i).state \in {PatchStateStart, PatchStateHunkEnd}
            /\ Mismatch(LineAt(i)))
        => ~success

C4_Witness ==
    /\ pc = "done"
    /\ state = PatchStateEnd
    /\ \E i \in Iterations :
           Mismatch(LineAt(i)) /\ Before(i).state = PatchStateStart

\* C5: the state End is entered only by a line equal to "-- " read in state
\* HunkEnd, so a body returns success = true only if such a line was read.
C5_EndOnlyBySignature ==
    /\ \A i \in Iterations :
           (After(i).state = PatchStateEnd
               /\ Before(i).state # PatchStateEnd)
           => (LineAt(i) = LineSignature
                  /\ Before(i).state = PatchStateHunkEnd)
    /\ (pc = "done" /\ success) =>
           \E i \in Iterations :
               LineAt(i) = LineSignature
                   /\ Before(i).state = PatchStateHunkEnd

C5_Witness ==
    pc = "scan" /\ state = PatchStateEnd /\ BranchAt(Len(trace)) = 5

\* C6: patchBody holds no non-breaking space.
C6_NoNbspInPatchBody == \A k \in 1..Len(patchBody) : patchBody[k] # NBSP

C6_Witness ==
    \E i \in Iterations : NBSP \in Chars(LineAt(i)) /\ Emitted(i)

\* C7: an empty line after which the state is Hunk or HunkEnd and the hunk
\* is ascii appends nothing to patchBody and changes no counter; any other
\* empty line (the state after it is Start, FileHeader or End, or the hunk is
\* binary) is appended to patchBody, as its line terminator alone.
C7_EmptyLines ==
    \A i \in Iterations :
        LineAt(i) = << >> =>
            IF /\ After(i).state \in {PatchStateHunk, PatchStateHunkEnd}
               /\ After(i).ascii
            THEN /\ ~Emitted(i)
                 /\ After(i).added = Before(i).added
                 /\ After(i).deleted = Before(i).deleted
            ELSE /\ \/ After(i).state \in {PatchStateStart,
                                              PatchStateFileHeader,
                                              PatchStateEnd}
                    \/ ~After(i).ascii
                 /\ Segment(i) \in {LF, CRLF}

C7_Witness ==
    /\ \E i \in Iterations : LineAt(i) = << >> /\ ~Emitted(i)
    /\ \E i \in Iterations : LineAt(i) = << >> /\ Emitted(i)

\* The terminator of the line that iteration i appended.
Eol(i) == IF EndsWith(Segment(i), CRLF) THEN "CRLF" ELSE "LF"

\* Iteration i handled its line as content of an ascii hunk of a file whose
\* path ends in ".sh".
ShellContent(i) ==
    /\ AsciiContent(i)
    /\ Before(i).filePath # Null
    /\ EndsWith(Before(i).filePath, <<".", "s", "h">>)

\* C8 as claimed: the lines of patchBody end in CRLF, but for the content
\* lines of ascii hunks of ".sh" files and of binary hunks, which end in LF.
C8_CrlfByDefault ==
    \A i \in Iterations :
        Emitted(i) =>
            (Eol(i) = "LF" <=> (ShellContent(i) \/ BinaryContent(i)))

\* C8 as amended: the lines of patchBody end in LF, but for the content
\* lines of ascii hunks of files whose path does not end in ".sh", which end
\* in CRLF.
C8_LfByDefault ==
    \A i \in Iterations :
        Emitted(i) =>
            (Eol(i) = "CRLF" <=> (AsciiContent(i) /\ ~ShellContent(i)))

C8_Witness ==
    /\ \E i \in Iterations : Emitted(i) /\ Eol(i) = "CRLF"
    /\ \E i \in Iterations :
           Emitted(i) /\ BranchAt(i) = 1 /\ Eol(i) = "LF"

\* Iterations k..n read a binary patch: a file header with equal paths,
\* "GIT binary patch", a "literal"/"delta" line, one or more payload lines, a
\* line that is no payload line, and "-- ".
BinaryPatch(k, n) ==
    /\ n >= k + 5
    /\ BranchAt(k) = 1
    /\ ~Mismatch(LineAt(k))
    /\ LineAt(k + 1) = LineGitBinary
    /\ regexPatchHunkBinarySubHeader(LineAt(k + 2))
    /\ \A j \in (k + 3)..(n - 2) : regexPatchHunkBinary(LineAt(j))
    /\ ~regexPatchHunkBinary(LineAt(n - 1))
    /\ LineAt(n) = LineSignature

\* C9: over a binary patch the state goes FileHeader, HunkHeader (twice),
\* Hunk (at each payload line), HunkEnd, End, and success stays as it was
\* before the patch: a body that is such a patch returns success = true.
C9_BinaryPatch ==
    \A k \in Iterations : \A n \in Iterations :
        BinaryPatch(k, n) =>
            /\ After(k).state = PatchStateFileHeader
            /\ After(k + 1).state = PatchStateHunkHeader
            /\ After(k + 2).state = PatchStateHunkHeader
            /\ \A j \in (k + 3)..(n - 2) : After(j).state = PatchStateHunk
            /\ After(n - 1).state = PatchStateHunkEnd
            /\ After(n).state = PatchStateEnd
            /\ After(n).success = Before(k).success
            /\ (pc = "done" /\ n = Len(trace)) =>
                   success = Before(k).success

C9_Witness ==
    /\ pc = "done"
    /\ success
    /\ trace # << >>
    /\ BinaryPatch(1, Len(trace))
    /\ LineAt(Len(trace) - 1) = << >>

\* ------------------------------------------------------------------------
\* The calls of getPatchFileName explored
\* ------------------------------------------------------------------------

\* What a subject starts with.
Prefixes ==
    {<<>>,
     <<"[", "E", "D", "K", "2", "]", " ">>,
     <<"[", "e", "d", "k", "2", "-", "d", "e", "v", "e", "l", "]", " ">>}

\* The patch tag that follows, if any.
Tags ==
    {<<>>,
     <<"[", "P", "A", "T", "C", "H", "]", " ">>,
     <<"[", "P", "a", "t", "c", "h", " ", "V", "2", "]", " ">>,
     <<"[", "P", "a", "t", "c", "h", " ", "V", "2", " ", "2", "/", "5", "]", " ">>,
     <<"[", "P", "A", "T", "C", "H", " ", "0", "/", "3", "]">>,
     <<"[", "P", "A", "T", "C", "H", " ", "v", "3", " ", "1", "0", "/", "1", "2", "]", " ">>}

\* What titles are made of.
TitleTokens ==
    {<<"x">>,
     <<" ">>,
     <<".">>,
     <<".", "w", "a", "r", "n", "i", "n", "g">>,
     <<EACUTE>>,
     <<"/">>}

\* The longest title, in tokens.
MaxTitle == 3

RECURSIVE Flatten(_)
Flatten(ts) == IF ts = << >> THEN << >> ELSE Head(ts) \o Flatten(Tail(ts))

Titles ==
    {Flatten(ts) : ts \in UNION {[1..n -> TitleTokens] : n \in 0..MaxTitle}}

Subjects == {p \o t \o x : p \in Prefixes, t \in Tags, x \in Titles}

InitName ==
    /\ input = [lines |-> {}, max |-> 0, impls |-> {"replaceFirst"}]
    /\ impl = "replaceFirst"
    /\ ScanInit
    /\ subject \in Subjects
    /\ flag \in BOOLEAN
    /\ fileName = Null

\* The call getPatchFileName(subject, flag).
Derive ==
    /\ fileName = Null
    /\ fileName' = getPatchFileName(subject, flag)
    /\ UNCHANGED <<subject, flag>>
    /\ UNCHANGED scanVars

NextName == Derive

SpecName == InitName /\ [][NextName]_vars

\* ------------------------------------------------------------------------
\* Properties of getPatchFileName
\* ------------------------------------------------------------------------

WarningPatch ==
    <<".", "w", "a", "r", "n", "i", "n", "g", ".", "p", "a", "t", "c", "h">>

\* C10: getPatchFileName(subject, true) never ends in ".warning.patch" and
\* getPatchFileName(subject, false) always does.
C10_WarningSuffixIffFailed ==
    fileName # Null => (EndsWith(fileName, WarningPatch) <=> ~flag)

\* The position of the "/" of a tag "[PATCH ... N/M]", 0 when it has none.
SlashOf(t) ==
    IF \E k \in 1..Len(t) : t[k] = "/"
    THEN CHOOSE k \in 1..Len(t) : t[k] = "/"
    ELSE 0

\* The first position of the run of digits that ends at position e of t.
RECURSIVE DigitsFrom(_, _)
DigitsFrom(t, e) ==
    IF e >= 1 /\ IsDigit(t[e]) THEN DigitsFrom(t, e - 1) ELSE e + 1

\* The series index N that a tag states, 1 when it states none.
SeriesIndex(t) ==
    IF SlashOf(t) = 0 THEN 1
    ELSE ParseInt(Sub(t, DigitsFrom(t, SlashOf(t) - 1), SlashOf(t) - 1))

\* The title that follows a tag: x without the white space it starts with
\* and without the "." and white space it ends with.
TitleOf(x) == Sub(x, SkipSpace(x, 1), TitleEnd(x, SkipSpace(x, 1), Len(x)))

\* The name of a subject made of a tag t and the text x after it: the series
\* index on 4 digits, a hyphen, the title.
TaggedName(t, x, ok) ==
    Hyphenated(Blanked(PadStart4(DecimalString(SeriesIndex(t)))
                           \o <<"-">> \o TitleOf(x)))
        \o Suffix(ok)

\* C11: the name derived from a subject that carries a "[PATCH ...]" tag,
\* with or without a version "V<digits>" and a series index "N/M", is the
\* index N on 4 digits (1 when the tag has no "N/M"), a hyphen and the title:
\* "[EDK2] [Patch V2] xxx" gives "0001-xxx.patch".
C11_TaggedSubjectStem ==
    fileName # Null =>
        \A p \in Prefixes : \A t \in Tags \ {<< >>} :
            HasAt(subject, 1, p \o t) =>
                fileName =
                    TaggedName(t, Sub(subject, Len(p) + Len(t) + 1,
                                      Len(subject)), flag)

\* ------------------------------------------------------------------------
\* The hunk headers explored
\* ------------------------------------------------------------------------

\* The range fields of a hunk header, "start" and "start,count".
RangeFields ==
    {<<"1">>, <<"5">>, <<"5", ",", "0">>, <<"5", ",", "1">>,
     <<"1", "2", ",", "3">>}

\* "@@ -o +n @@"
Header(o, n) ==
    <<"@", "@", " ", "-">> \o o \o <<" ", "+">> \o n \o <<" ", "@", "@">>

HeaderLines ==
    {LineDiffSame, LineContext, LineDel}
        \cup {Header(o, n) : o \in RangeFields, n \in RangeFields}

\* The longest of the bodies made of these lines.
MaxHeader == 3

InitHeader ==
    /\ input = [lines |-> HeaderLines, max |-> MaxHeader,
                impls |-> {"replaceFirst"}]
    /\ impl = "replaceFirst"
    /\ ScanInit
    /\ NameIdle

NextHeader ==
    \/ \E raw \in HeaderLines : ReadLine(raw)
    \/ Finish

SpecHeader == InitHeader /\ [][NextHeader]_vars

\* The count that a range field states: the digits after its comma, 1 when
\* it has no comma.
CountOf(r) ==
    IF \E k \in 1..Len(r) : r[k] = ","
    THEN ParseInt(Sub(r, (CHOOSE k \in 1..Len(r) : r[k] = ",") + 1, Len(r)))
    ELSE 1

\* C12: when a hunk header "@@ -s1[,D] +s2[,A] @@" is consumed,
\* deletedLinesInHunk is set to D and addedLinesInHunk to A, each 1 when the
\* ",count" part is left out, whatever the start lines s1 and s2 are.
C12_CountsDefaultToOne ==
    (pc = "scan" /\ trace # << >> /\ BranchAt(Len(trace)) = 2) =>
        \A o \in RangeFields : \A n \in RangeFields :
            LineAt(Len(trace)) = Header(o, n) =>
                /\ deletedLinesInHunk = CountOf(o)
                /\ addedLinesInHunk = CountOf(n)

\* ------------------------------------------------------------------------
\* Bodies of several files
\* ------------------------------------------------------------------------

\* A second set of bodies, for what a body of several files and what the
\* lines after the end show: long bodies out of the lines of two files, one
\* of them a ".sh" file, middle ones out of the lines of a binary patch, and
\* the short ones as before.
FilesLines ==
    {LineDiffSh, LineDiffOther, LineHunk11, LineContext, LineSignature}

MaxMid == 5

FilesInputs ==
    {[lines |-> FilesLines, max |-> MaxLong, impls |-> {"replaceFirst"}],
     [lines |-> BinaryLines, max |-> MaxMid, impls |-> {"replaceFirst"}],
     [lines |-> AsciiLines, max |-> MaxShort, impls |-> {"replaceFirst"}],
     [lines |-> NbspLines, max |-> MaxShort, impls |-> Impls]}

InitFiles ==
    /\ input \in FilesInputs
    /\ impl \in input.impls
    /\ ScanInit
    /\ NameIdle

SpecFiles == InitFiles /\ [][Next]_vars

\* ------------------------------------------------------------------------
\* Further properties of convertToPatch
\* ------------------------------------------------------------------------

\* The loop has completed an iteration; Last is that iteration.
Stepped == pc = "scan" /\ trace # << >>

Last == Len(trace)

\* What an iteration that emits line l with LF, with CRLF appends.
WithLF(l) == ReplaceNbsp(l) \o LF

WithCRLF(l) == ReplaceNbsp(l) \o CRLF

\* Iteration i left every local variable but the state as it was.
OnlyStateMoved(i) == After(i) = [Before(i) EXCEPT !.state = After(i).state]

\* C13 as claimed: in a binary hunk (state HunkHeader or Hunk, asciiHunk
\* false) every line that is no payload line moves the state to HunkEnd and
\* is appended with LF.
C13_NonPayloadEndsHunk ==
    (/\ Stepped
     /\ Before(Last).state \in {PatchStateHunkHeader, PatchStateHunk}
     /\ ~Before(Last).ascii
     /\ ~regexPatchHunkBinary(LineAt(Last)))
    => /\ state = PatchStateHunkEnd
       /\ Segment(Last) = WithLF(LineAt(Last))

\* C13 as amended: in a binary hunk a line that is no payload line and is
\* not taken as a "delta"/"literal" line (which it is in state HunkHeader)
\* moves the state to HunkEnd, changes nothing else and is appended with LF;
\* "-- ", "diff --git", "@@" and "GIT binary patch" lines among them, which
\* so lead neither to End nor to FileHeader nor to HunkHeader.
C13_FallbackNonPayloadEndsHunk ==
    (/\ Stepped
     /\ Before(Last).state \in {PatchStateHunkHeader, PatchStateHunk}
     /\ ~Before(Last).ascii
     /\ ~regexPatchHunkBinary(LineAt(Last))
     /\ ~(/\ Before(Last).state = PatchStateHunkHeader
          /\ regexPatchHunkBinarySubHeader(LineAt(Last))))
    => /\ BranchAt(Last) = 4
       /\ state = PatchStateHunkEnd
       /\ OnlyStateMoved(Last)
       /\ Segment(Last) = WithLF(LineAt(Last))

C13_Witness ==
    /\ Stepped
    /\ Last >= 2
    /\ BinaryContent(Last - 1)
    /\ regexPatchHunkBinary(LineAt(Last - 1))
    /\ BinaryContent(Last)
    /\ LineAt(Last) = LineSignature
    /\ state = PatchStateHunkEnd

\* The path of the last file header consumed in the iterations 1..i, Null
\* when there is none.
RECURSIVE LatestPath(_)
LatestPath(i) ==
    IF i = 0 THEN Null
    ELSE IF BranchAt(i) = 1 THEN regexPatchFileHeader(LineAt(i)).m1
    ELSE LatestPath(i - 1)

ShellPath(path) == path # Null /\ EndsWith(path, <<".", "s", "h">>)

\* C14: a line handled as content of an ascii hunk is emitted with LF if the
\* path of the latest file header consumed ends in ".sh" and with CRLF if
\* not; a line handled as content of a binary hunk is emitted with LF.
C14_ContentEol ==
    (Stepped /\ BranchAt(Last) = 4 /\ Emitted(Last)) =>
        Segment(Last) =
            IF Before(Last).ascii /\ ~ShellPath(LatestPath(Last - 1))
            THEN WithCRLF(LineAt(Last))
            ELSE WithLF(LineAt(Last))

\* Two files in one body, the first a ".sh" file and the second not: the
\* content of the first is emitted with LF, that of the second with CRLF.
C14_Witness ==
    /\ Stepped
    /\ AsciiContent(Last)
    /\ Segment(Last) = WithCRLF(LineAt(Last))
    /\ \E i \in Iterations : \E j \in Iterations :
           /\ i < j
           /\ j < Last
           /\ AsciiContent(i)
           /\ Segment(i) = WithLF(LineAt(i))
           /\ BranchAt(j) = 1

\* Iteration i read a "delta"/"literal" line in state HunkHeader or HunkEnd.
SubHeaderRead(i) ==
    /\ regexPatchHunkBinarySubHeader(LineAt(i))
    /\ Before(i).state \in {PatchStateHunkHeader, PatchStateHunkEnd}

\* C15: a "delta <digits>" or "literal <digits>" line read in state
\* HunkHeader or HunkEnd leads to state HunkHeader; if the current hunk is
\* ascii it makes success false, in the result too, and if the hunk is binary
\* it records no failure and leaves success as it was.
C15_SubHeaderInAsciiHunkFails ==
    /\ (Stepped /\ SubHeaderRead(Last)) =>
           /\ state = PatchStateHunkHeader
           /\ IF Before(Last).ascii
              THEN ~success /\ "mixed" \in violations
              ELSE /\ success = Before(Last).success
                   /\ violations = Before(Last).violations
    /\ pc = "done" =>
           \A i \in Iterations :
               (SubHeaderRead(i) /\ Before(i).ascii) => ~success

C15_Witness ==
    /\ pc = "done"
    /\ ~success
    /\ violations = {"mixed"}
    /\ \E i \in Iterations :
           /\ SubHeaderRead(i)
           /\ Before(i).ascii
           /\ Before(i).state = PatchStateHunkEnd
           /\ Before(i).success

\* The local variables of convertToPatch before the loop.
Declared ==
    [state |-> PatchStateStart, added |-> 0, deleted |-> 0, ascii |-> FALSE,
     success |-> TRUE, filePath |-> Null, violations |-> {}]

\* The loop of convertToPatch over a whole body, in version im: the local
\* variables and patchBody after it, and whether an iteration threw.
RECURSIVE Scan(_, _)
Scan(im, body) ==
    IF body = << >>
    THEN [v |-> Declared, out |-> << >>, threw |-> FALSE]
    ELSE LET r == Scan(im, Sub(body, 1, Len(body) - 1))
             l == LoopLine(im, body[Len(body)])
             w == IfChain(r.v, l)
         IN  IF r.threw \/ Throws(r.v, l) THEN [r EXCEPT !.threw = TRUE]
             ELSE [v |-> w,
                   out |-> IF Skipped(w, l) THEN r.out
                           ELSE r.out \o Emission(l, UnixEol(r.v, l)),
                   threw |-> FALSE]

\* What convertToPatch returns for a body, in version im.
convertToPatch(im, body) ==
    LET r == Scan(im, body)
    IN  IF r.threw THEN <<"threw">>
        ELSE <<Finalize(r.v.state, r.v.success), r.out>>

\* A body with every U+00A0 replaced by a space.
Despaced(body) == [k \in 1..Len(body) |-> ReplaceNbsp(body[k])]

\* C16: convertToPatch returns for a body what it returns for the body with
\* every U+00A0 replaced by a space, success and patchBody alike.
C16_NbspReplacedBeforeRecognition ==
    pc = "done" =>
        <<success, patchBody>> = convertToPatch(impl, Despaced(consumed))

\* The changes of state that the claim allows to one line.
Transitions ==
    {<<PatchStateStart, PatchStateFileHeader>>,
     <<PatchStateFileHeader, PatchStateHunkHeader>>,
     <<PatchStateHunkHeader, PatchStateHunkHeader>>,
     <<PatchStateHunkHeader, PatchStateHunk>>,
     <<PatchStateHunkHeader, PatchStateHunkEnd>>,
     <<PatchStateHunk, PatchStateHunk>>,
     <<PatchStateHunk, PatchStateHunkEnd>>,
     <<PatchStateHunkEnd, PatchStateFileHeader>>,
     <<PatchStateHunkEnd, PatchStateHunkHeader>>,
     <<PatchStateHunkEnd, PatchStateEnd>>}

\* C17: a line changes the state by one of the transitions listed or leaves
\* it as it is; the state is End only after a file header, a hunk header, a
\* line that closed a hunk and a line "-- " read in state HunkEnd, in this
\* order; and a line read in state Hunk is handled as hunk content, whatever
\* it is, and leaves the state Hunk or HunkEnd.
C17_TransitionRelation ==
    Stepped =>
        /\ \/ state = Before(Last).state
           \/ <<Before(Last).state, state>> \in Transitions
        /\ (state = PatchStateEnd /\ Before(Last).state # PatchStateEnd) =>
               /\ Before(Last).state = PatchStateHunkEnd
               /\ LineAt(Last) = LineSignature
        /\ state = PatchStateEnd =>
               \E i, j, k, n \in Iterations :
                   /\ i < j /\ j < k /\ k < n
                   /\ BranchAt(i) = 1
                   /\ BranchAt(j) = 2
                   /\ BranchAt(k) = 4 /\ After(k).state = PatchStateHunkEnd
                   /\ BranchAt(n) = 5
        /\ Before(Last).state = PatchStateHunk =>
               /\ BranchAt(Last) = 4
               /\ state \in {PatchStateHunk, PatchStateHunkEnd}

\* The end is reached in a body where a "diff --git" line was read in state
\* Hunk.
C17_Witness ==
    /\ Stepped
    /\ state = PatchStateEnd
    /\ \E i \in Iterations :
           /\ Before(i).state = PatchStateHunk
           /\ regexPatchFileHeader(LineAt(i)).ok

\* Iteration i read an empty line after which the state is Hunk or HunkEnd
\* and the hunk is ascii: the line is dropped.
Dropped(i) ==
    /\ LineAt(i) = << >>
    /\ After(i).ascii
    /\ After(i).state \in {PatchStateHunk, PatchStateHunkEnd}

\* What iteration i is to append: nothing if its line is dropped, and if not
\* the line with its terminator, CRLF for content of an ascii hunk of a file
\* that is no ".sh" file, LF for the rest.
Kept(i) ==
    IF Dropped(i) THEN << >>
    ELSE IF AsciiContent(i) /\ ~ShellPath(LatestPath(i - 1))
    THEN WithCRLF(LineAt(i))
    ELSE WithLF(LineAt(i))

RECURSIVE KeptUpTo(_)
KeptUpTo(n) == IF n = 0 THEN << >> ELSE KeptUpTo(n - 1) \o Kept(n)

\* The last iteration, run from a state with success and the failures
\* recorded changed to ok and vs.
Rerun(ok, vs) ==
    IfChain([Before(Last) EXCEPT !.success = ok, !.violations = vs],
            LineAt(Last))

\* C18: every line of the body is read, and patchBody is made, in the order
\* of the body, of the lines that were not dropped, each with U+00A0 replaced
\* and one terminator appended, the lines after a failure included; whether
\* a failure was recorded changes nothing of an iteration but success.
C18_NoViolationAbortsScan ==
    /\ pc # "threw"
    /\ Len(trace) = Len(consumed)
    /\ patchBody = KeptUpTo(Len(consumed))
    /\ Stepped =>
           \A ok \in BOOLEAN :
               Rerun(ok, {}) =
                   [After(Last) EXCEPT !.success = Rerun(ok, {}).success,
                                       !.violations =
                                           Rerun(ok, {}).violations]

\* A line is appended after a failure was recorded.
C18_Witness ==
    /\ pc = "done"
    /\ \E i \in Iterations :
           /\ i < Last
           /\ ~After(i).success
           /\ \E j \in (i + 1)..Last : Emitted(j) /\ Segment(j) = Kept(j)
    /\ \E i \in Iterations : Dropped(i)

\* C19: after every line, and at the return: if the hunk is ascii and the
\* state is HunkEnd then both counters are 0; if a counter is below 0 then
\* success is false; and success, once false, is false after every further
\* line and in the result.
C19_HunkBookkeeping ==
    /\ (asciiHunk /\ state = PatchStateHunkEnd) =>
           addedLinesInHunk = 0 /\ deletedLinesInHunk = 0
    /\ (addedLinesInHunk < 0 \/ deletedLinesInHunk < 0) => ~success
    /\ (trace # << >> /\ ~Before(Last).success) => ~After(Last).success
    /\ (trace # << >> /\ ~After(Last).success) => ~success

\* A counter went below 0, and further lines were read up to the return.
C19_Witness ==
    /\ pc = "done"
    /\ ~success
    /\ \E i \in Iterations :
           /\ i < Last
           /\ Before(i).success
           /\ (After(i).added < 0 \/ After(i).deleted < 0)
           /\ After(Last).state = PatchStateHunk

\* C20: a line read in state End takes no branch of the if-chain, leaves the
\* state, the counters, asciiHunk, filePath and success as they were and is
\* appended to patchBody with LF; a body that reached End with success true
\* returns success true, whatever follows.
C20_EndIsAbsorbing ==
    /\ (Stepped /\ Before(Last).state = PatchStateEnd) =>
           /\ BranchAt(Last) = 0
           /\ After(Last) = Before(Last)
           /\ Locals = Before(Last)
           /\ Segment(Last) = WithLF(LineAt(Last))
    /\ pc = "done" =>
           \A i \in Iterations :
               (After(i).state = PatchStateEnd /\ After(i).success)
                   => success

\* After the end, a file header with two different paths and a hunk header
\* were read, and the result is success.
C20_Witness ==
    /\ pc = "done"
    /\ success
    /\ \E i \in Iterations :
           Before(i).state = PatchStateEnd /\ Mismatch(LineAt(i))
    /\ Before(Last).state = PatchStateEnd
    /\ LineAt(Last) = LineHunk11

====
